---- MODULE Spec2Model ----
(***************************************************************************)
(* DavePMEi Memory API (src/server.py): the Flask handlers /save_memory    *)
(* and /get_memory, the sanitizers, the ID allocator, the per-key rate     *)
(* limiter and the storage operations of class DB, as a state machine.     *)
(*                                                                         *)
(* Strings are sequences of one-character strings, so that strip(),        *)
(* lower(), slicing, len(), int() and the f-string formatting of the code  *)
(* are computed and not assumed.  " " stands for every whitespace          *)
(* character.  A drift score is a number of hundredths (0.30 is 30).       *)
(***************************************************************************)
EXTENDS Integers, Sequences, FiniteSets, TLC

(***************************************************************************)
(* Bounds of the model.                                                    *)
(***************************************************************************)
AuthRows == 1         \* SpecAuth: rows the table may hold
AuthReqs == 2         \* SpecAuth: entries a rate bucket may hold
AuthTime == 2         \* SpecAuth: the clock runs over 1..AuthTime
SanRows == 1          \* SpecSan, SpecContent: rows the table may hold
SanReqs == 2          \* SpecSan, SpecContent: entries a rate bucket may hold
SanTime == 2          \* SpecSan, SpecContent: the clock runs over 1..SanTime
IdRows == 3           \* SpecIds: rows the table may hold
IdReqs == 3           \* SpecIds: entries a rate bucket may hold
IdTime == 3           \* SpecIds: the clock runs over 1..IdTime
QueryRows == 2        \* SpecQuery: rows the table may hold
QueryReqs == 1        \* SpecQuery: entries the bucket of /get_memory may hold
QueryTime == 2        \* SpecQuery: the clock runs over 1..QueryTime
PageRows == 2         \* SpecPage: rows the table may hold
PageReqs == 1         \* SpecPage: an iteration starts while the bucket is shorter
PageTime == 2         \* SpecPage: the clock runs over 1..PageTime
AutoRows == 3         \* SpecAuto: rows the table may hold
AutoTime == 3         \* SpecAuto: the clock runs over 1..AutoTime
SlideRows == 3        \* SpecSlide: rows the table may hold
SlideTime == 2        \* SpecSlide: the clock runs over 1..SlideTime
GlyphRows == 2        \* SpecGlyph: rows the table may hold
GlyphTime == 2        \* SpecGlyph: the clock runs over 1..GlyphTime
RaceRows == 2         \* SpecRace: saves the workers may take on
RaceTime == 2         \* SpecRace: the clock runs over 1..RaceTime
FrameRows == 2        \* SpecFrame: rows the table may hold
FrameReqs == 2        \* SpecFrame: entries of one window a rate bucket may hold
FrameTicks == 2       \* SpecFrame: the clock runs over 1..FrameTicks before it leaps

\* MAX_CONTENT_CHARS is read from the environment; the runs configure a small one
MAX_CONTENT_CHARS == 2

(***************************************************************************)
(* Program constants.                                                      *)
(***************************************************************************)
GLYPH_MAX == 16
THREAD_MAX == 64
ROLE_MAX == 32
SAVE_PER_MIN == 120
GET_PER_MIN == 240
RATE_WINDOW == 60
LIMIT_MAX == 200
DRIFT_MAX == 30           \* 0.30 in hundredths
DRIFT_DEFAULT == 10       \* 0.10 in hundredths

(***************************************************************************)
(* Python string operations.                                               *)
(***************************************************************************)
WS == " "

Digits == {"0", "1", "2", "3", "4", "5", "6", "7", "8", "9"}

DigitVal(c) ==
  CASE c = "0" -> 0 [] c = "1" -> 1 [] c = "2" -> 2 [] c = "3" -> 3 [] c = "4" -> 4
    [] c = "5" -> 5 [] c = "6" -> 6 [] c = "7" -> 7 [] c = "8" -> 8 [] c = "9" -> 9

DigitChar(d) ==
  CASE d = 0 -> "0" [] d = 1 -> "1" [] d = 2 -> "2" [] d = 3 -> "3" [] d = 4 -> "4"
    [] d = 5 -> "5" [] d = 6 -> "6" [] d = 7 -> "7" [] d = 8 -> "8" [] d = 9 -> "9"

\* str.lower() on the letters the inputs use
LowerChar(c) ==
  CASE c = "B" -> "b" [] c = "E" -> "e" [] c = "A" -> "a" [] c = "R" -> "r"
    [] c = "O" -> "o" [] c = "K" -> "k" [] c = "L" -> "l" [] c = "I" -> "i"
    [] c = "N" -> "n" [] c = "F" -> "f"
    [] OTHER -> c

Lower(s) == [i \in 1..Len(s) |-> LowerChar(s[i])]

\* s[:n]
Take(s, n) == SubSeq(s, 1, IF Len(s) < n THEN Len(s) ELSE n)

\* s[n:]  (n counted from 0)
Drop(s, n) == SubSeq(s, n + 1, Len(s))

\* str.strip()
Strip(s) ==
  LET keep == {i \in 1..Len(s) : s[i] # WS}
  IN IF keep = {} THEN <<>>
     ELSE LET lo == CHOOSE i \in keep : \A j \in keep : i <= j
              hi == CHOOSE i \in keep : \A j \in keep : j <= i
          IN SubSeq(s, lo, hi)

StartsWith(s, p) == Len(s) >= Len(p) /\ SubSeq(s, 1, Len(p)) = p

\* index of the first occurrence of character c in s, 0 when absent
IndexOf(s, c) ==
  LET hits == {i \in 1..Len(s) : s[i] = c}
  IN IF hits = {} THEN 0 ELSE CHOOSE i \in hits : \A j \in hits : i <= j

\* s.split(c, 1)[1] and s.split(c)[1] up to the next c
AfterFirst(s, c) == Drop(s, IndexOf(s, c))

AllDigits(s) == \A i \in 1..Len(s) : s[i] \in Digits

RECURSIVE DigitsValue(_)
DigitsValue(s) ==
  IF s = <<>> THEN 0
  ELSE 10 * DigitsValue(SubSeq(s, 1, Len(s) - 1)) + DigitVal(s[Len(s)])

RECURSIVE NatToStr(_)
NatToStr(n) ==
  IF n < 10 THEN <<DigitChar(n)>>
  ELSE Append(NatToStr(n \div 10), DigitChar(n % 10))

\* str(n) of an int
IntToStr(n) == IF n < 0 THEN <<"-">> \o NatToStr(-n) ELSE NatToStr(n)

RECURSIVE ZeroPad(_, _)
\* the format spec 0<w>d applied to a non-negative int already rendered as s
ZeroPad(s, w) == IF Len(s) >= w THEN s ELSE ZeroPad(<<"0">> \o s, w)

\* int(s) of a str: surrounding whitespace and one sign are accepted
ParseInt(s) ==
  LET t == Strip(s)
      signed == t # <<>> /\ t[1] \in {"-", "+"}
      body == IF signed THEN Drop(t, 1) ELSE t
  IN IF body = <<>> \/ ~AllDigits(body)
     THEN [ok |-> FALSE, v |-> 0]
     ELSE [ok |-> TRUE,
           v |-> IF signed /\ t[1] = "-" THEN -DigitsValue(body) ELSE DigitsValue(body)]

(***************************************************************************)
(* JSON values of a request body, and Python floats.                       *)
(* A JSON value is [t, s, n]: t its type, s the characters of a string,    *)
(* n a number in hundredths (or 0/1 for a bool).  A float is [k, h]:       *)
(* k = "num" with h hundredths, or "nan", "inf", "ninf".                   *)
(***************************************************************************)
JAbsent == [t |-> "absent", s |-> <<>>, n |-> 0]
JNull == [t |-> "null", s |-> <<>>, n |-> 0]
JStr(s) == [t |-> "str", s |-> s, n |-> 0]
JNum(h) == [t |-> "num", s |-> <<>>, n |-> h]
JBool(b) == [t |-> "bool", s |-> <<>>, n |-> IF b THEN 1 ELSE 0]

\* dict.get(key, default)
GetOr(v, default) == IF v.t = "absent" THEN default ELSE v

\* bool(v) of Python
Truthy(v) ==
  CASE v.t = "str" -> v.s # <<>>
    [] v.t = "num" -> v.n # 0
    [] v.t = "bool" -> v.n = 1
    [] OTHER -> FALSE

\* str(v) for the values the string fields carry (str, null, bool)
PyStr(v) ==
  CASE v.t = "str" -> v.s
    [] v.t = "null" -> <<"N", "o", "n", "e">>
    [] v.t = "bool" -> IF v.n = 1 THEN <<"T", "r", "u", "e">> ELSE <<"F", "a", "l", "s", "e">>

FNum(h) == [k |-> "num", h |-> h]
FNan == [k |-> "nan", h |-> 0]
FInf == [k |-> "inf", h |-> 0]
FNegInf == [k |-> "ninf", h |-> 0]

\* a < b on floats: every comparison with NaN is false
FLess(a, b) ==
  CASE a.k = "nan" \/ b.k = "nan" -> FALSE
    [] a.k = "ninf" -> b.k # "ninf"
    [] a.k = "inf" -> FALSE
    [] b.k = "inf" -> TRUE
    [] b.k = "ninf" -> FALSE
    [] OTHER -> a.h < b.h

\* min(a, b) and max(a, b) of Python: the first argument unless the second beats it
PyMin(a, b) == IF FLess(b, a) THEN b ELSE a
PyMax(a, b) == IF FLess(a, b) THEN b ELSE a

\* float(s) of a str with at most two fraction digits: [ok, f]
ParseFloat(s) ==
  LET t == Lower(Strip(s))
      signed == t # <<>> /\ t[1] \in {"-", "+"}
      neg == signed /\ t[1] = "-"
      body == IF signed THEN Drop(t, 1) ELSE t
      dot == IndexOf(body, ".")
      ip == IF dot = 0 THEN body ELSE SubSeq(body, 1, dot - 1)
      fp == IF dot = 0 THEN <<>> ELSE Drop(body, dot)
      mag == 100 * DigitsValue(ip) + DigitsValue(Take(fp \o <<"0", "0">>, 2))
  IN IF body \in {<<"n", "a", "n">>} THEN [ok |-> TRUE, f |-> FNan]
     ELSE IF body \in {<<"i", "n", "f">>, <<"i", "n", "f", "i", "n", "i", "t", "y">>}
       THEN [ok |-> TRUE, f |-> IF neg THEN FNegInf ELSE FInf]
     ELSE IF AllDigits(ip) /\ AllDigits(fp) /\ Len(ip) + Len(fp) > 0 /\ Len(fp) <= 2
       THEN [ok |-> TRUE, f |-> FNum(IF neg THEN -mag ELSE mag)]
     ELSE [ok |-> FALSE, f |-> FNum(0)]

\* float(x) of a JSON value: [ok, f]; ok is FALSE where Python raises
ToFloat(v) ==
  CASE v.t = "num" -> [ok |-> TRUE, f |-> FNum(v.n)]
    [] v.t = "bool" -> [ok |-> TRUE, f |-> FNum(100 * v.n)]
    [] v.t = "str" -> ParseFloat(v.s)
    [] OTHER -> [ok |-> FALSE, f |-> FNum(0)]

(***************************************************************************)
(* PMEi constraints and sanitizers.                                        *)
(***************************************************************************)
S_ok == <<"o", "k">>
S_important == <<"i", "m", "p", "o", "r", "t", "a", "n", "t">>
S_critical == <<"c", "r", "i", "t", "i", "c", "a", "l">>
S_lawful == <<"l", "a", "w", "f", "u", "l">>
SAFE_SEALS == {S_ok, S_important, S_critical, S_lawful}

\* the default glyph, one code point
GLYPH_DEFAULT == <<"#">>

ClampNoFloor(x) ==
  LET p == ToFloat(x)
  IN IF ~p.ok THEN DRIFT_DEFAULT ELSE PyMin(p.f, FNum(DRIFT_MAX)).h

\* clamp_drift: the stored number of hundredths
clamp_drift(x) ==
  LET p == ToFloat(x)
  IN IF ~p.ok THEN DRIFT_DEFAULT
     ELSE PyMax(FNum(0), PyMin(p.f, FNum(DRIFT_MAX))).h

\* sanitize_glyph: [ok, s]; ok is FALSE where .strip() raises on a non-str
sanitize_glyph(g) ==
  LET x == IF Truthy(g) THEN g ELSE JStr(GLYPH_DEFAULT)
  IN IF x.t # "str" THEN [ok |-> FALSE, s |-> <<>>]
     ELSE [ok |-> TRUE, s |-> Take(Strip(x.s), GLYPH_MAX)]

SealNoMembership(s) ==
  LET x == IF Truthy(s) THEN s ELSE JStr(S_lawful)
  IN IF x.t # "str" THEN [ok |-> FALSE, s |-> <<>>]
     ELSE [ok |-> TRUE, s |-> Lower(Strip(x.s))]

\* sanitize_seal: [ok, s]; ok is FALSE where .strip() raises on a non-str
sanitize_seal(s) ==
  LET x == IF Truthy(s) THEN s ELSE JStr(S_lawful)
  IN IF x.t # "str" THEN [ok |-> FALSE, s |-> <<>>]
     ELSE LET y == Lower(Strip(x.s))
          IN [ok |-> TRUE, s |-> IF y \in SAFE_SEALS THEN y ELSE S_lawful]

\* a pattern that also admits the prefix r
SlideMatchEitherPrefix(s) ==
  /\ Len(s) >= 5
  /\ Len(s) <= 8
  /\ s[1] \in {"t", "r"}
  /\ s[2] = "-"
  /\ AllDigits(Drop(s, 2))

\* SLIDE_RE.match(s): t, dash, three to six digits
SlideMatch(s) ==
  /\ Len(s) >= 5
  /\ Len(s) <= 8
  /\ s[1] = "t"
  /\ s[2] = "-"
  /\ AllDigits(Drop(s, 2))

\* the f-string t-{n:03d}
SlideFormat(n) == <<"t", "-">> \o ZeroPad(IntToStr(n), 3)

SLIDE_FIRST == <<"t", "-", "0", "0", "1">>

(***************************************************************************)
(* rate_limit_ok on one bucket at time t: [ok, bucket].                    *)
(***************************************************************************)
RECURSIVE Prune(_, _)
Prune(bucket, t) ==
  IF bucket # <<>> /\ t - bucket[1] > RATE_WINDOW THEN Prune(Tail(bucket), t) ELSE bucket

\* a limiter that never forgets an admission
RateLimitNoPrune(bucket, t, max_per_min) ==
  IF Len(bucket) >= max_per_min THEN [ok |-> FALSE, bucket |-> bucket]
  ELSE [ok |-> TRUE, bucket |-> Append(bucket, t)]

rate_limit_ok(bucket, t, max_per_min) ==
  LET b == Prune(bucket, t)
  IN IF Len(b) >= max_per_min THEN [ok |-> FALSE, bucket |-> b]
     ELSE [ok |-> TRUE, bucket |-> Append(b, t)]

(***************************************************************************)
(* State.                                                                  *)
(*   MEMORY_API_KEY  the configured secret, read once at import            *)
(*   store           table memories, in insertion (rowid) order            *)
(*   RATE_BUCKET     key -> list of admission times                        *)
(*   now             int(time.time())                                      *)
(*   req, resp       the request handled last and its response             *)
(*   rows            rowids of the rows the last select_memories returned  *)
(*   pager           a client following next_before_ts                     *)
(*   work            the request each worker thread is handling, its locals *)
(***************************************************************************)
VARIABLES MEMORY_API_KEY, store, RATE_BUCKET, now, req, resp, rows, pager, work

vars == <<MEMORY_API_KEY, store, RATE_BUCKET, now, req, resp, rows, pager, work>>

\* an optional value: <<>> is None, <<x>> is x
None == <<>>
Some(x) == <<x>>

Ips == {"ip1", "ip2"}
BucketKeys == {"save", "get"} \X Ips

(***************************************************************************)
(* class DB over the table.                                                *)
(***************************************************************************)
\* DB.insert_memory: the table after the INSERT
\* an INSERT that replaces the row of the same user, thread and slide_id
InsertUpsert(st, rec) ==
  LET same == {i \in DOMAIN st : /\ st[i].user_id = rec.user_id
                                  /\ st[i].thread_id = rec.thread_id
                                  /\ st[i].slide_id = rec.slide_id}
  IN IF same = {} THEN Append(st, rec)
     ELSE [i \in DOMAIN st |-> IF i \in same THEN rec ELSE st[i]]

\* an INSERT that a row of the same user, thread and slide_id turns away
InsertUnique(st, rec) ==
  IF \E i \in DOMAIN st : /\ st[i].user_id = rec.user_id
                          /\ st[i].thread_id = rec.thread_id
                          /\ st[i].slide_id = rec.slide_id
  THEN st
  ELSE Append(st, rec)

insert_memory(st, rec) == Append(st, rec)

SelectOldestInThread(st, user_id, thread_id) ==
  LET g == {i \in DOMAIN st : st[i].user_id = user_id /\ st[i].thread_id = thread_id}
  IN IF g = {} THEN {0}
     ELSE {i \in g : \A j \in g : st[i].ts <= st[j].ts}

\* DB.select_latest_in_thread: the rowids ORDER BY ts DESC LIMIT 1 may return
\* (0 when the group is empty); rows of equal ts come in an order SQL leaves open
select_latest_in_thread(st, user_id, thread_id) ==
  LET g == {i \in DOMAIN st : st[i].user_id = user_id /\ st[i].thread_id = thread_id}
  IN IF g = {} THEN {0}
     ELSE {i \in g : \A j \in g : st[j].ts <= st[i].ts}

FilterKeys == {"user_id", "thread_id", "slide_id", "seal", "role"}

\* a WHERE clause whose cursor condition is ts <= before_ts
MatchesUpToCursor(row, filters, before_ts) ==
  /\ \A key \in FilterKeys :
       (filters[key] # None /\ filters[key][1] # <<>>) => row[key] = filters[key][1]
  /\ (before_ts # None /\ before_ts[1] # 0) => row.ts <= before_ts[1]

\* a WHERE clause that filters on user_id and thread_id only
MatchesUserThread(row, filters, before_ts) ==
  /\ \A key \in {"user_id", "thread_id"} :
       (filters[key] # None /\ filters[key][1] # <<>>) => row[key] = filters[key][1]
  /\ (before_ts # None /\ before_ts[1] # 0) => row.ts < before_ts[1]

\* "if val:" of an optional str
Given(o) == o # None /\ o[1] # <<>>

\* the WHERE clause of select_memories
Matches(row, filters, before_ts) ==
  /\ \A key \in FilterKeys : Given(filters[key]) => row[key] = filters[key][1]
  /\ (before_ts # None /\ before_ts[1] # 0) => row.ts < before_ts[1]

\* ORDER BY ts ASC on a sequence of rowids
SortedAscending(st, p) == \A i, j \in DOMAIN p : i < j => st[p[i]].ts <= st[p[j]].ts

\* ORDER BY ts DESC on a sequence of rowids
SortedDescending(st, p) == \A i, j \in DOMAIN p : i < j => st[p[i]].ts >= st[p[j]].ts

\* DB.select_memories: the sequences of rowids the SELECT may return
select_memories(st, filters, limit, before_ts) ==
  LET m == {i \in DOMAIN st : Matches(st[i], filters, before_ts)}
      n == Cardinality(m)
      orders == {p \in [1..n -> m] :
                   /\ \A i, j \in 1..n : i # j => p[i] # p[j]
                   /\ SortedDescending(st, p)}
  IN {Take(p, limit) : p \in orders}

(***************************************************************************)
(* Auth.                                                                   *)
(***************************************************************************)
BEARER == <<"b", "e", "a", "r", "e", "r", " ">>

\* the bearer token of an Authorization header value
Bearer(auth) ==
  IF StartsWith(Lower(auth), BEARER) THEN Strip(AfterFirst(auth, " ")) ELSE <<>>

AuthNoEmptyGuard(key, r) == r.xkey = key \/ Bearer(r.auth) = key

\* _auth_ok; X-API-Key and X-API-KEY name the same header
auth_ok(key, r) ==
  IF key = <<>> THEN FALSE
  ELSE r.xkey = key \/ Bearer(r.auth) = key

(***************************************************************************)
(* ID allocator.                                                           *)
(***************************************************************************)
\* next_slide_id_for, given the rowid select_latest_in_thread returned
next_slide_id_for(st, last) ==
  IF last # 0 /\ SlideMatch(st[last].slide_id)
  THEN SlideFormat(DigitsValue(AfterFirst(st[last].slide_id, "-")) + 1)
  ELSE SLIDE_FIRST

(***************************************************************************)
(* Responses.                                                              *)
(***************************************************************************)
Reply(code) ==
  [code |-> code, slide_id |-> <<>>, ts |-> 0, items |-> <<>>, count |-> 0,
   next_before_ts |-> None]

NoData ==
  [user_id |-> JAbsent, thread_id |-> JAbsent, content |-> JAbsent, role |-> JAbsent,
   drift_score |-> JAbsent, glyph_echo |-> JAbsent, seal |-> JAbsent,
   slide_id |-> JAbsent, ts |-> JAbsent]

NoArgs ==
  [user_id |-> None, thread_id |-> None, slide_id |-> None, seal |-> None,
   role |-> None, limit |-> None, before_ts |-> None]

NoReq ==
  [path |-> "", method |-> "", xkey |-> <<>>, auth |-> <<>>, ip |-> "ip1",
   data |-> NoData, args |-> NoArgs]

Workers == {"w1", "w2"}

\* a worker between requests; its locals are those of save_memory
WorkerIdle ==
  [pc |-> "idle", req |-> NoReq, t |-> 0, user_id |-> <<>>, thread_id |-> <<>>,
   content |-> <<>>, role |-> <<>>, slide_id |-> <<>>, last |-> 0, ts |-> 0, code |-> 0]

PagerIdle ==
  [on |-> FALSE, done |-> FALSE, req |-> NoReq, cursor |-> None, seen |-> {},
   count |-> 0, overlap |-> FALSE]

(***************************************************************************)
(* Routes.                                                                 *)
(***************************************************************************)
S_general == <<"g", "e", "n", "e", "r", "a", "l">>
S_assistant == <<"a", "s", "s", "i", "s", "t", "a", "n", "t">>

\* (str(data.get(key, default)).strip() or default)[:n]
FieldOr(v, default, n) ==
  LET x == Strip(PyStr(GetOr(v, JStr(default))))
  IN Take(IF x = <<>> THEN default ELSE x, n)

\* str(data.get(key, "")).strip()
Field(v) == Strip(PyStr(GetOr(v, JStr(<<>>))))

RecordTsFromClient(r, user_id, thread_id, content, role, slide_id, t) ==
  [user_id |-> user_id, thread_id |-> thread_id, slide_id |-> slide_id,
   glyph_echo |-> sanitize_glyph(GetOr(r.data.glyph_echo, JStr(GLYPH_DEFAULT))).s,
   drift_score |-> clamp_drift(GetOr(r.data.drift_score, JNum(DRIFT_DEFAULT))),
   seal |-> sanitize_seal(GetOr(r.data.seal, JStr(S_lawful))).s,
   role |-> role, content |-> content,
   ts |-> IF r.data.ts.t = "num" THEN r.data.ts.n \div 100 ELSE t]

\* the dict rec of save_memory, built at server time t
Record(r, user_id, thread_id, content, role, slide_id, t) ==
  [user_id |-> user_id, thread_id |-> thread_id, slide_id |-> slide_id,
   glyph_echo |-> sanitize_glyph(GetOr(r.data.glyph_echo, JStr(GLYPH_DEFAULT))).s,
   drift_score |-> clamp_drift(GetOr(r.data.drift_score, JNum(DRIFT_DEFAULT))),
   seal |-> sanitize_seal(GetOr(r.data.seal, JStr(S_lawful))).s,
   role |-> role, content |-> content, ts |-> t]

OversizeLax(content) == Len(content) > MAX_CONTENT_CHARS + 1

\* the content-length guard of save_memory
Oversize(content) == Len(content) > MAX_CONTENT_CHARS

\* POST|OPTIONS /save_memory: require_key, then save_memory
SaveMemory(r) ==
  /\ r.path = "/save_memory"
  /\ req' = r
  /\ rows' = <<>>
  /\ UNCHANGED <<MEMORY_API_KEY, now, pager, work>>
  /\ IF r.method = "OPTIONS"
     THEN resp' = Reply(204) /\ UNCHANGED <<store, RATE_BUCKET>>
     ELSE IF ~auth_ok(MEMORY_API_KEY, r)
     THEN resp' = Reply(401) /\ UNCHANGED <<store, RATE_BUCKET>>
     ELSE
       LET key == <<"save", r.ip>>
           rl == rate_limit_ok(RATE_BUCKET[key], now, SAVE_PER_MIN)
           user_id == Field(r.data.user_id)
           thread_id == FieldOr(r.data.thread_id, S_general, THREAD_MAX)
           content == Field(r.data.content)
           role == FieldOr(r.data.role, S_assistant, ROLE_MAX)
           slide_in == Field(r.data.slide_id)
       IN /\ RATE_BUCKET' = [RATE_BUCKET EXCEPT ![key] = rl.bucket]
          /\ IF ~rl.ok
             THEN resp' = Reply(429) /\ UNCHANGED store
             ELSE IF user_id = <<>> \/ content = <<>>
             THEN resp' = Reply(400) /\ UNCHANGED store
             ELSE IF Oversize(content)
             THEN resp' = Reply(413) /\ UNCHANGED store
             ELSE IF ~sanitize_glyph(GetOr(r.data.glyph_echo, JStr(GLYPH_DEFAULT))).ok
                     \/ ~sanitize_seal(GetOr(r.data.seal, JStr(S_lawful))).ok
             THEN resp' = Reply(500) /\ UNCHANGED store
             ELSE \E slide_id \in
                       IF slide_in = <<>> \/ ~SlideMatch(slide_in)
                       THEN {next_slide_id_for(store, last) :
                               last \in select_latest_in_thread(store, user_id, thread_id)}
                       ELSE {slide_in} :
                    LET rec == Record(r, user_id, thread_id, content, role, slide_id, now)
                    IN /\ store' = insert_memory(store, rec)
                       /\ resp' = [Reply(201) EXCEPT !.slide_id = rec.slide_id,
                                                     !.ts = rec.ts]

\* the limit of get_memory: [ok, v]
Limit(args) ==
  LET p == ParseInt(IF args.limit = None THEN <<"5", "0">> ELSE args.limit[1])
      lo == IF p.v < LIMIT_MAX THEN p.v ELSE LIMIT_MAX
  IN [ok |-> p.ok, v |-> IF lo < 1 THEN 1 ELSE lo]

\* the before_ts of get_memory: [ok, v], v optional
BeforeTs(args) ==
  IF ~Given(args.before_ts) THEN [ok |-> TRUE, v |-> None]
  ELSE LET p == ParseInt(args.before_ts[1])
       IN [ok |-> p.ok, v |-> IF p.ok THEN Some(p.v) ELSE None]

\* GET|OPTIONS /get_memory: require_key, then get_memory
GetHandler(r) ==
  /\ r.path = "/get_memory"
  /\ req' = r
  /\ UNCHANGED <<MEMORY_API_KEY, now, store, work>>
  /\ IF r.method = "OPTIONS"
     THEN resp' = Reply(204) /\ rows' = <<>> /\ UNCHANGED RATE_BUCKET
     ELSE IF ~auth_ok(MEMORY_API_KEY, r)
     THEN resp' = Reply(401) /\ rows' = <<>> /\ UNCHANGED RATE_BUCKET
     ELSE
       \* the handler's locals, each computed once
       \E key \in {<<"get", r.ip>>}, limit \in {Limit(r.args)},
          before_ts \in {BeforeTs(r.args)} :
       \E rl \in {rate_limit_ok(RATE_BUCKET[key], now, GET_PER_MIN)} :
          /\ RATE_BUCKET' = [RATE_BUCKET EXCEPT ![key] = rl.bucket]
          /\ IF ~rl.ok
             THEN resp' = Reply(429) /\ rows' = <<>>
             ELSE IF ~limit.ok \/ ~before_ts.ok
             THEN resp' = Reply(400) /\ rows' = <<>>
             ELSE \E ids \in select_memories(store, r.args, limit.v, before_ts.v) :
                    /\ rows' = ids
                    /\ resp' = [Reply(200) EXCEPT
                                  !.items = [i \in DOMAIN ids |-> store[ids[i]]],
                                  !.count = Len(ids),
                                  !.next_before_ts =
                                     IF ids = <<>> THEN None
                                     ELSE Some(store[ids[Len(ids)]].ts)]

\* one request to /get_memory from any client
GetMemory(r) == GetHandler(r) /\ UNCHANGED pager

\* the clock advances
Tick(max) ==
  /\ now < max
  /\ now' = now + 1
  /\ UNCHANGED <<MEMORY_API_KEY, store, RATE_BUCKET, req, resp, rows, pager, work>>

(***************************************************************************)
(* A client paging backwards: the first call carries no cursor, every      *)
(* later call carries before_ts = the previous response's next_before_ts.  *)
(***************************************************************************)
PagerStep(first, r) ==
  /\ GetHandler(r)
  /\ resp'.code = 200
  /\ pager' = [on |-> TRUE,
               done |-> resp'.next_before_ts = None,
               req |-> [r EXCEPT !.args.before_ts = None],
               cursor |-> resp'.next_before_ts,
               count |-> Len(rows'),
               seen |-> (IF first THEN {} ELSE pager.seen) \cup {rows'[i] : i \in DOMAIN rows'},
               overlap |-> ~first /\ \E i \in DOMAIN rows' : rows'[i] \in pager.seen]

PageFirst(r) ==
  /\ ~pager.on \/ pager.done
  /\ r.args.before_ts = None
  /\ PagerStep(TRUE, r)

PageNext ==
  /\ pager.on /\ ~pager.done
  /\ \E r \in {[pager.req EXCEPT !.args.before_ts = Some(IntToStr(pager.cursor[1]))]} :
       PagerStep(FALSE, r)

(***************************************************************************)
(* Initial state: the module has been imported, DB.init() has created an   *)
(* empty table, no request has been handled.                               *)
(***************************************************************************)
KEY == <<"s">>

\* values of the environment variable MEMORY_API_KEY
EnvKeys == {<<>>, <<" ">>, <<"s">>, <<"s", " ">>}

InitWith(env) ==
  /\ MEMORY_API_KEY \in {Strip(e) : e \in env}
  /\ store = <<>>
  /\ RATE_BUCKET = [k \in BucketKeys |-> <<>>]
  /\ now = 1
  /\ req = NoReq
  /\ resp = Reply(0)
  /\ rows = <<>>
  /\ pager = PagerIdle
  /\ work = [w \in Workers |-> WorkerIdle]

Init == InitWith(EnvKeys)

InitKeyed == InitWith({KEY})

\* the bounds on the rate buckets and on the table
Room(path, r, maxreqs) == Len(RATE_BUCKET[<<path, r.ip>>]) < maxreqs

Fits(maxrows) == Len(store') <= maxrows

Req(path, method, xkey, auth, data, args) ==
  [path |-> path, method |-> method, xkey |-> xkey, auth |-> auth, ip |-> "ip1",
   data |-> data, args |-> args]

Post(data) == Req("/save_memory", "POST", KEY, <<>>, data, NoArgs)

Get(args) == Req("/get_memory", "GET", KEY, <<>>, NoData, args)

BaseData == [NoData EXCEPT !.user_id = JStr(<<"u">>), !.content = JStr(<<"c">>)]

(***************************************************************************)
(* Requests with and without credentials.                                  *)
(***************************************************************************)
AuthHeaders ==
  {[xkey |-> <<>>, auth |-> <<>>],
   [xkey |-> <<"s">>, auth |-> <<>>],
   [xkey |-> <<"x">>, auth |-> <<>>],
   [xkey |-> <<"s", " ">>, auth |-> <<>>],
   [xkey |-> <<>>, auth |-> <<"B", "e", "a", "r", "e", "r", " ", "s">>],
   [xkey |-> <<>>, auth |-> <<"b", "e", "a", "r", "e", "r", " ", " ", "s", " ">>],
   [xkey |-> <<>>, auth |-> <<"B", "e", "a", "r", "e", "r", " ", "x">>],
   [xkey |-> <<>>, auth |-> <<"B", "e", "a", "r", "e", "r", " ">>],
   [xkey |-> <<>>, auth |-> <<"B", "e", "a", "r", "e", "r">>],
   [xkey |-> <<>>, auth |-> <<"B", "e", "a", "r", "e", "r", "s">>],
   [xkey |-> <<>>, auth |-> <<"B", "a", "s", "i", "c", " ", "s">>],
   [xkey |-> <<>>, auth |-> <<"s">>],
   [xkey |-> <<"x">>, auth |-> <<"B", "e", "a", "r", "e", "r", " ", "s">>]}

AuthSaves ==
  {Req("/save_memory", m, h.xkey, h.auth, BaseData, NoArgs) :
     m \in {"POST", "OPTIONS"}, h \in AuthHeaders}

AuthGets ==
  {Req("/get_memory", m, h.xkey, h.auth, NoData, NoArgs) :
     m \in {"GET", "OPTIONS"}, h \in AuthHeaders}

SaveAuth ==
  \E r \in AuthSaves : Room("save", r, AuthReqs) /\ SaveMemory(r) /\ Fits(AuthRows)

GetAuth == \E r \in AuthGets : Room("get", r, AuthReqs) /\ GetMemory(r)

TickAuth == Tick(AuthTime)

NextAuth == SaveAuth \/ GetAuth \/ TickAuth

SpecAuth == Init /\ [][NextAuth]_vars

\* the request presents key k: in X-API-Key, or after the scheme Bearer
Presents(r, k) ==
  \/ r.xkey = k
  \/ \E i \in 1..Len(r.auth) :
       /\ Lower(SubSeq(r.auth, 1, i)) = BEARER
       /\ Strip(SubSeq(r.auth, i + 1, Len(r.auth))) = k

\* C1: a request to /save_memory or /get_memory, method other than OPTIONS,
\* that does not present the configured secret (or any request when the
\* secret is empty) is answered 401 and leaves the table as it was.
C1_Unauthorized ==
  [][(/\ req'.path \in {"/save_memory", "/get_memory"}
      /\ req'.method # "OPTIONS"
      /\ MEMORY_API_KEY = <<>> \/ ~Presents(req', MEMORY_API_KEY))
     => (resp'.code = 401 /\ store' = store)]_vars

\* a save without the secret was answered 401 on a table that holds rows
C1_Witness ==
  /\ req.path = "/save_memory"
  /\ req.method = "POST"
  /\ MEMORY_API_KEY # <<>>
  /\ ~Presents(req, MEMORY_API_KEY)
  /\ resp.code = 401
  /\ store # <<>>

(***************************************************************************)
(* Saves with every kind of drift_score and seal.                          *)
(***************************************************************************)
DriftInputs ==
  {JAbsent, JNull, JBool(TRUE), JBool(FALSE),
   JNum(-5), JNum(0), JNum(25), JNum(30), JNum(31), JNum(500),
   JStr(<<"0", ".", "2">>), JStr(<<" ", ".", "5", " ">>), JStr(<<"-", "0", ".", "1">>),
   JStr(<<"a", "b", "c">>), JStr(<<>>), JStr(<<"1", ".", "2", ".", "3">>), JStr(<<".">>),
   JStr(<<"N", "a", "N">>), JStr(<<"i", "n", "f">>), JStr(<<"-", "i", "n", "f">>)}

SealInputs ==
  {JAbsent, JNull, JNum(0), JNum(500), JBool(TRUE), JBool(FALSE),
   JStr(S_ok), JStr(<<" ", "O", "K", " ">>), JStr(S_important), JStr(S_critical),
   JStr(<<"L", "a", "w", "f", "u", "l">>), JStr(<<"b", "a", "d">>), JStr(<<>>),
   JStr(<<" ">>), JStr(<<"o", " ", "k">>)}

SanSaves ==
  {Post([BaseData EXCEPT !.drift_score = d]) : d \in DriftInputs}
    \cup {Post([BaseData EXCEPT !.seal = x]) : x \in SealInputs}

SaveSan == \E r \in SanSaves : Room("save", r, SanReqs) /\ SaveMemory(r) /\ Fits(SanRows)

TickSan == Tick(SanTime)

NextSan == SaveSan \/ TickSan

SpecSan == InitKeyed /\ [][NextSan]_vars

\* the row the last 201 response reports
Saved == store[Len(store)]

\* drift_score values float() raises on
Unparsable ==
  {JNull, JStr(<<"a", "b", "c">>), JStr(<<>>), JStr(<<"1", ".", "2", ".", "3">>), JStr(<<".">>)}

\* C8: every stored drift_score lies in [0.0, 0.30], whatever drift_score the
\* saves carried; a value that cannot be parsed (and a missing one) is stored
\* as 0.10.
C8_DriftInRange ==
  /\ \A i \in DOMAIN store : store[i].drift_score >= 0 /\ store[i].drift_score <= 30
  /\ (resp.code = 201 /\ req.data.drift_score \in Unparsable \cup {JAbsent})
       => Saved.drift_score = 10

\* a row was stored from a drift_score below the range
C8_Witness ==
  /\ resp.code = 201
  /\ req.data.drift_score \in {JNum(-5), JStr(<<"-", "i", "n", "f">>)}
  /\ Saved.drift_score = 0

\* the seal values that name a safe seal, in any case and with whitespace around
NamesSeal(v) ==
  /\ v.t = "str"
  /\ \E x \in SAFE_SEALS : \E i, j \in 0..Len(v.s) :
       /\ i + Len(x) + j = Len(v.s)
       /\ \A n \in 1..Len(v.s) :
            IF n <= i \/ n > i + Len(x) THEN v.s[n] = WS ELSE LowerChar(v.s[n]) = x[n - i]

\* C9: every stored seal is one of ok, important, critical, lawful, whatever
\* seal the saves carried; an invalid or missing seal is stored as lawful.
C9_SealSafe ==
  /\ \A i \in DOMAIN store : store[i].seal \in {S_ok, S_important, S_critical, S_lawful}
  /\ (resp.code = 201 /\ ~NamesSeal(req.data.seal)) => Saved.seal = S_lawful

\* a row was stored from a seal that names nothing
C9_Witness ==
  /\ resp.code = 201
  /\ req.data.seal = JStr(<<"b", "a", "d">>)
  /\ Saved.seal = S_lawful

(***************************************************************************)
(* Saves with content around the configured maximum and with a client ts.  *)
(***************************************************************************)
CC(n) == [i \in 1..n |-> "c"]

ContentInputs ==
  {JAbsent, JStr(<<>>), JStr(<<" ">>), JStr(CC(1)), JStr(CC(MAX_CONTENT_CHARS)),
   JStr(CC(MAX_CONTENT_CHARS + 1)), JStr(CC(MAX_CONTENT_CHARS + 2)),
   JStr(CC(MAX_CONTENT_CHARS) \o <<" ">>), JStr(<<" ">> \o CC(MAX_CONTENT_CHARS + 1))}

ClientTs == {JNum(0), JNum(100), JNum(500), JStr(<<"5">>)}

UserInputs == {JAbsent, JStr(<<" ">>), JStr(<<" ", "u">>)}

ContentSaves ==
  {Post([BaseData EXCEPT !.content = c]) : c \in ContentInputs}
    \cup {Post([BaseData EXCEPT !.ts = t]) : t \in ClientTs}
    \cup {Post([BaseData EXCEPT !.user_id = u, !.content = JStr(CC(MAX_CONTENT_CHARS + 1))]) :
            u \in UserInputs}

SaveContent ==
  \E r \in ContentSaves : Room("save", r, SanReqs) /\ SaveMemory(r) /\ Fits(SanRows)

NextContent == SaveContent \/ TickSan

SpecContent == InitKeyed /\ [][NextContent]_vars

\* a str field of a request body as the client sent it
Raw(v) == IF v.t = "str" THEN v.s ELSE <<>>

\* an authorized POST to /save_memory that the rate limiter admits
Admitted(r, rsp) ==
  /\ r.path = "/save_memory"
  /\ r.method = "POST"
  /\ rsp.code \notin {401, 429}

\* C7 as claimed: an authorized save whose content is longer than the
\* configured maximum is answered 413 and stores nothing.
C7_AsClaimed ==
  [][(Admitted(req', resp') /\ Len(Raw(req'.data.content)) > MAX_CONTENT_CHARS)
     => (resp'.code = 413 /\ store' = store)]_vars

\* C7 amended: an authorized save, admitted by the rate limiter, whose
\* content is longer than the configured maximum once surrounding whitespace
\* is trimmed stores nothing and is answered 413 when its user_id is not
\* blank, 400 when it is; content is never cut: what a 201 stores is the
\* trimmed content, no longer than the maximum.
C7_Oversize ==
  [][(Admitted(req', resp') /\ req'.data.content.t = "str")
     => /\ Len(Strip(Raw(req'.data.content))) > MAX_CONTENT_CHARS
           => /\ store' = store
              /\ resp'.code = IF Strip(Raw(req'.data.user_id)) = <<>> THEN 400 ELSE 413
        /\ (resp'.code = 201 /\ store' # store)
           => /\ store'[Len(store')].content = Strip(Raw(req'.data.content))
              /\ Len(store'[Len(store')].content) <= MAX_CONTENT_CHARS]_vars

\* a save one character over the maximum was answered 413, the table holding a row
C7_Witness ==
  /\ req.data.content = JStr(CC(MAX_CONTENT_CHARS + 1))
  /\ req.data.user_id = JStr(<<"u">>)
  /\ resp.code = 413
  /\ Len(store) = 1

\* C10: the ts stored by a save is the server clock at the time the save is
\* handled and the 201 response reports it; the stored row is the same
\* whatever ts field the body carries.
C10_ServerTs ==
  [][(req'.path = "/save_memory" /\ resp'.code = 201 /\ store' # store)
     => LET row == store'[Len(store')]
        IN /\ row.ts = now
           /\ resp'.ts = row.ts
           /\ \A t \in ClientTs \cup {JAbsent} :
                Record([req' EXCEPT !.data.ts = t], row.user_id, row.thread_id,
                       row.content, row.role, row.slide_id, now) = row]_vars

\* a save whose body carried ts = 5 was stored with the server's ts
C10_Witness ==
  /\ resp.code = 201
  /\ req.data.ts = JNum(500)
  /\ Saved.ts = now
  /\ Saved.ts # 5
  /\ resp.ts = Saved.ts

(***************************************************************************)
(* Saves that leave slide_id to the allocator, in two groups, between      *)
(* saves that supply one.                                                  *)
(***************************************************************************)
T041 == <<"t", "-", "0", "4", "1">>
T042 == <<"t", "-", "0", "4", "2">>
T999999 == <<"t", "-", "9", "9", "9", "9", "9", "9">>
T1000000 == <<"t", "-", "1", "0", "0", "0", "0", "0", "0">>

SlideInputs ==
  {JAbsent, JStr(T041), JStr(T999999), JStr(<<" ", "t", "-", "0", "9", "9", " ">>),
   JStr(<<"t", "-", "4", "1">>), JStr(<<"x">>)}

IdSaves ==
  {Post([BaseData EXCEPT !.slide_id = x]) : x \in SlideInputs}
    \cup {Post([BaseData EXCEPT !.thread_id = JStr(<<"a">>)])}

SaveIds == \E r \in IdSaves : Room("save", r, IdReqs) /\ SaveMemory(r) /\ Fits(IdRows)

TickIds == Tick(IdTime)

NextIds == SaveIds \/ TickIds

SpecIds == InitKeyed /\ [][NextIds]_vars

\* the save leaves slide_id to the allocator: none supplied, or not of the pattern
Allocated(r) ==
  \/ r.data.slide_id.t = "absent"
  \/ ~SlideMatch(Strip(Raw(r.data.slide_id)))

\* the rowids of a group
Group(st, user_id, thread_id) ==
  {i \in DOMAIN st : st[i].user_id = user_id /\ st[i].thread_id = thread_id}

\* out is t-(n) in decimal, zero-padded to three digits and no further
IsSlideNumber(out, n) ==
  /\ Len(out) >= 5
  /\ SubSeq(out, 1, 2) = <<"t", "-">>
  /\ AllDigits(Drop(out, 2))
  /\ DigitsValue(Drop(out, 2)) = n
  /\ Len(out) > 5 => out[3] # "0"

\* C3: the allocator answers t-001 when the group holds no row or when the
\* slide_id of its latest row (greatest ts) is not of the pattern, and
\* t-(N+1), zero-padded to at least three digits, when that slide_id is t-N.
C3_NextSlideId ==
  [][(/\ req'.path = "/save_memory"
      /\ resp'.code = 201
      /\ store' # store
      /\ Allocated(req'))
     => LET row == store'[Len(store')]
            g == Group(store, row.user_id, row.thread_id)
        IN /\ resp'.slide_id = row.slide_id
           /\ IF g = {} THEN row.slide_id = <<"t", "-", "0", "0", "1">>
              ELSE \E i \in g :
                     /\ \A j \in g : store[j].ts <= store[i].ts
                     /\ IF SlideMatch(store[i].slide_id)
                        THEN IsSlideNumber(row.slide_id,
                                           DigitsValue(Drop(store[i].slide_id, 2)) + 1)
                        ELSE row.slide_id = <<"t", "-", "0", "0", "1">>
           /\ (g # {} /\ \A i \in g : store[i].slide_id = T041) => row.slide_id = T042]_vars

\* the allocator answered t-1000000 after t-999999, and then t-001 after that
\* latest row, whose slide_id has outgrown the pattern
C3_Witness ==
  /\ Len(store) = 3
  /\ store[1].slide_id = T999999
  /\ store[2].slide_id = T1000000
  /\ store[1].ts < store[2].ts
  /\ store[2].ts < store[3].ts
  /\ resp.code = 201
  /\ resp.slide_id = <<"t", "-", "0", "0", "1">>

(***************************************************************************)
(* Saves into two groups, and reads with every filter, limit and cursor.   *)
(***************************************************************************)
Args(user_id, thread_id, limit, before_ts) ==
  [NoArgs EXCEPT !.user_id = user_id, !.thread_id = thread_id, !.limit = limit,
                 !.before_ts = before_ts]

SaveUA(content) ==
  Post([NoData EXCEPT !.user_id = JStr(<<"u">>), !.thread_id = JStr(<<"a">>),
                      !.content = JStr(content)])

SaveV ==
  Post([NoData EXCEPT !.user_id = JStr(<<"v">>), !.content = JStr(<<"c">>),
                      !.seal = JStr(S_ok), !.role = JStr(<<"r">>)])

QuerySaves == {SaveUA(<<"c">>), SaveUA(<<"d">>), SaveV}

LimitInputs ==
  {None, Some(<<"1">>), Some(<<"2">>), Some(<<"0">>), Some(<<"-", "1">>),
   Some(<<"3", "0", "0">>), Some(<<" ", "2", " ">>), Some(<<"x">>), Some(<<>>)}

CursorInputs == {Some(<<"2">>), Some(<<"0">>), Some(<<"x">>)}

QueryArgs ==
  {Args(None, None, l, None) : l \in LimitInputs}
    \cup {Args(None, None, None, b) : b \in CursorInputs}
    \cup {Args(Some(<<"u">>), None, None, None),
          Args(Some(<<"u">>), Some(<<"a">>), Some(<<"1">>), None),
          Args(Some(<<>>), Some(S_general), None, None),
          [NoArgs EXCEPT !.seal = Some(S_ok)],
          [NoArgs EXCEPT !.role = Some(<<"r">>)],
          [NoArgs EXCEPT !.slide_id = Some(<<"t", "-", "0", "0", "1">>)],
          [NoArgs EXCEPT !.user_id = Some(<<"v">>), !.role = Some(S_assistant)]}

SaveQuery ==
  \E r \in QuerySaves : Room("save", r, QueryRows) /\ SaveMemory(r) /\ Fits(QueryRows)

GetQuery == \E a \in QueryArgs : Room("get", Get(a), QueryReqs) /\ GetMemory(Get(a))

TickQuery == Tick(QueryTime)

NextQuery == SaveQuery \/ GetQuery \/ TickQuery

SpecQuery == InitKeyed /\ [][NextQuery]_vars

\* the save carries user_id, thread_id and content and nothing else
PlainSave(r) ==
  /\ r.path = "/save_memory"
  /\ r.method = "POST"
  /\ r.data.user_id.t = "str"
  /\ r.data.thread_id.t = "str"
  /\ r.data.content.t = "str"
  /\ \A f \in {"role", "drift_score", "glyph_echo", "seal", "slide_id", "ts"} :
       r.data[f] = JAbsent

\* C2: right after an authorized save of user_id u, thread_id th, content c
\* and nothing else, get_memory with user_id = u, thread_id = th, limit = 1
\* returns exactly one item, the row just saved: content c, role assistant,
\* seal lawful, drift_score within [0, 0.30].
C2_RoundTrip ==
  [][(/\ PlainSave(req)
      /\ resp.code = 201
      /\ req'.path = "/get_memory"
      /\ req'.args = Args(Some(req.data.user_id.s), Some(req.data.thread_id.s),
                          Some(<<"1">>), None)
      /\ resp'.code = 200)
     => /\ resp'.count = 1
        /\ Len(resp'.items) = 1
        /\ resp'.items[1] = store[Len(store)]
        /\ resp'.items[1].content = req.data.content.s
        /\ resp'.items[1].role = S_assistant
        /\ resp'.items[1].seal = S_lawful
        /\ resp'.items[1].drift_score >= 0
        /\ resp'.items[1].drift_score <= 30]_vars

\* the page size the limit parameter asks for
LimitAsked(l) ==
  CASE l = None -> 50
    [] l = Some(<<"1">>) -> 1
    [] l = Some(<<"2">>) -> 2
    [] l = Some(<<"0">>) -> 1
    [] l = Some(<<"-", "1">>) -> 1
    [] l = Some(<<"3", "0", "0">>) -> 200
    [] l = Some(<<" ", "2", " ">>) -> 2

\* a row satisfies every filter of the request that has a non-empty value
Satisfies(row, args) ==
  \A key \in {"user_id", "thread_id", "slide_id", "seal", "role"} :
    (args[key] # None /\ args[key][1] # <<>>) => row[key] = args[key][1]

\* C4: a read returns at most limit rows, each equal to the filter value on
\* every filter whose value is non-empty; a missing or empty filter restricts
\* nothing: short of limit and without cursor, every row that satisfies the
\* non-empty filters is returned.
C4_SelectFiltered ==
  (req.path = "/get_memory" /\ resp.code = 200)
    => /\ Len(resp.items) <= LimitAsked(req.args.limit)
       /\ resp.count = Len(resp.items)
       /\ \A i \in DOMAIN resp.items : Satisfies(resp.items[i], req.args)
       /\ (Len(resp.items) < LimitAsked(req.args.limit) /\ req.args.before_ts = None)
            => {rows[i] : i \in DOMAIN rows} = {i \in DOMAIN store : Satisfies(store[i], req.args)}

\* a read with a seal filter returned the one row of that seal out of two
C4_Witness ==
  /\ req.path = "/get_memory"
  /\ req.args.seal = Some(S_ok)
  /\ resp.code = 200
  /\ Len(store) = 2
  /\ Len(resp.items) = 1
  /\ resp.items[1].seal = S_ok

\* C6: the rows a read returns are in descending order of ts.
C6_Descending ==
  (req.path = "/get_memory" /\ resp.code = 200)
    => \A i \in DOMAIN resp.items : \A j \in DOMAIN resp.items :
         i < j => resp.items[i].ts >= resp.items[j].ts

\* a read returned two rows of different ts
C6_Witness ==
  /\ req.path = "/get_memory"
  /\ resp.code = 200
  /\ Len(resp.items) = 2
  /\ resp.items[1].ts > resp.items[2].ts

(***************************************************************************)
(* A client pages through the table while saves go on.                     *)
(***************************************************************************)
PageArgs ==
  {Args(None, None, Some(<<"1">>), None),
   Args(Some(<<"u">>), None, Some(<<"2">>), None)}

SavePage ==
  \E r \in {SaveUA(<<"c">>), SaveV} :
    Room("save", r, PageRows) /\ SaveMemory(r) /\ Fits(PageRows) /\ UNCHANGED pager

FirstPage == \E a \in PageArgs : Room("get", Get(a), PageReqs) /\ PageFirst(Get(a))

TickPage == Tick(PageTime)

NextPage == SavePage \/ FirstPage \/ PageNext \/ TickPage

\* an iteration is under way
PagingOn == pager.on /\ ~pager.done

\* the client goes on calling until a response carries no cursor
SpecPage == InitKeyed /\ [][NextPage]_vars /\ WF_vars(PageNext)

\* C5: from a call without cursor on, each call repeating the filters with
\* before_ts = the previous next_before_ts, no stored row appears in two
\* pages, and the iteration ends with an empty page whose next_before_ts is
\* none.
C5_Pagination ==
  /\ [](~pager.overlap)
  /\ [](pager.done <=> (pager.on /\ pager.count = 0))
  /\ [](pager.on => (pager.count = 0 <=> pager.cursor = None))
  /\ PagingOn ~> pager.done

\* an iteration of one-row pages has returned two rows and then the empty page
C5_Witness ==
  /\ pager.done
  /\ pager.req.args.limit = Some(<<"1">>)
  /\ Cardinality(pager.seen) = 2
  /\ pager.count = 0
  /\ resp.next_before_ts = None

(***************************************************************************)
(* Requests of every outcome: stored, rejected, failed, refused; and a     *)
(* clock that can leave the rate limiter's window behind.                  *)
(***************************************************************************)
FrameSaves ==
  {Post(BaseData),
   Post([BaseData EXCEPT !.slide_id = JStr(T041)]),
   Post([BaseData EXCEPT !.content = JAbsent]),
   Post([BaseData EXCEPT !.content = JStr(CC(MAX_CONTENT_CHARS + 1))]),
   Post([BaseData EXCEPT !.seal = JNum(500)]),
   [Post(BaseData) EXCEPT !.xkey = <<"x">>],
   [Post(BaseData) EXCEPT !.method = "OPTIONS"]}

FrameGets ==
  {Get(NoArgs), Get([NoArgs EXCEPT !.limit = Some(<<"x">>)])}

\* the entries of a bucket no older than the window at time t
Recent(bucket, t) ==
  LET Young(x) == t - x <= RATE_WINDOW
  IN SelectSeq(bucket, Young)

\* the bucket a request belongs to
BucketOf(r) == <<IF r.path = "/save_memory" THEN "save" ELSE "get", r.ip>>

\* the bound on the rate buckets, counting what the window still holds
RoomRecent(r, maxreqs) == Len(Recent(RATE_BUCKET[BucketOf(r)], now)) < maxreqs

SaveFrame ==
  \E r \in FrameSaves : RoomRecent(r, FrameReqs) /\ SaveMemory(r) /\ Fits(FrameRows)

GetFrame == \E r \in FrameGets : RoomRecent(r, FrameReqs) /\ GetMemory(r)

\* the clock moves a whole window ahead
Leap ==
  /\ now <= FrameTicks
  /\ now' = now + RATE_WINDOW
  /\ UNCHANGED <<MEMORY_API_KEY, store, RATE_BUCKET, req, resp, rows, pager, work>>

NextFrame == SaveFrame \/ GetFrame \/ Tick(FrameTicks) \/ Leap

SpecFrame == InitKeyed /\ [][NextFrame]_vars

\* C11: every row once stored stays stored with all its fields; get_memory
\* and every rejected or failed request leave the table as it is; a save
\* answered 201 adds exactly one row.
C11_AppendOnly ==
  [][/\ Len(store') >= Len(store)
     /\ \A i \in DOMAIN store : store'[i] = store[i]
     /\ store' # store
          => (req'.path = "/save_memory" /\ resp'.code = 201 /\ Len(store') = Len(store) + 1)
     /\ (now' = now /\ req'.path = "/save_memory" /\ resp'.code = 201)
          => Len(store') = Len(store) + 1]_vars

\* a second row with the slide_id of the first was added, then a read
C11_Witness ==
  /\ Len(store) = 2
  /\ store[1].slide_id = T041
  /\ store[2].slide_id = T041
  /\ req.path = "/get_memory"
  /\ resp.code = 200

\* C16 as claimed: a request answered 400 or 413 changes neither the table
\* nor any rate-limiter bucket.
C16_AsClaimed ==
  [][(now' = now /\ resp'.code \in {400, 413})
     => (store' = store /\ RATE_BUCKET' = RATE_BUCKET)]_vars

\* C16 amended: a request answered 400 or 413 leaves the table as it is; of
\* the rate-limiter buckets it changes only its own (route and client
\* address), which loses the entries older than 60 s and gains the time of
\* the request.
C16_Validation ==
  [][(now' = now /\ resp'.code \in {400, 413})
     => /\ store' = store
        /\ \A k \in BucketKeys :
             RATE_BUCKET'[k] = IF k = BucketOf(req')
                               THEN Append(Recent(RATE_BUCKET[k], now), now)
                               ELSE RATE_BUCKET[k]]_vars

\* a save without content was answered 400 after the window had passed the
\* older of two entries
C16_Witness ==
  /\ req.path = "/save_memory"
  /\ req.ip = "ip1"
  /\ resp.code = 400
  /\ now = RATE_WINDOW + 2
  /\ RATE_BUCKET[<<"save", "ip1">>] = <<2, now>>
  /\ store = <<>>

(***************************************************************************)
(* save_memory on worker threads: each worker handles one request at a     *)
(* time, and another worker may run between any two of its accesses to     *)
(* the clock, to RATE_BUCKET and to the table.                             *)
(***************************************************************************)
Frame(w, x) ==
  /\ work' = [work EXCEPT ![w] = x]
  /\ UNCHANGED <<MEMORY_API_KEY, now, req, resp, rows, pager>>

\* require_key, and the OPTIONS answer
Accept(w, r) ==
  /\ work[w].pc = "idle"
  /\ r.path = "/save_memory"
  /\ Frame(w, IF r.method = "OPTIONS" THEN [WorkerIdle EXCEPT !.req = r, !.code = 204]
              ELSE IF ~auth_ok(MEMORY_API_KEY, r)
              THEN [WorkerIdle EXCEPT !.req = r, !.code = 401]
              ELSE [WorkerIdle EXCEPT !.req = r, !.pc = "rate_enter"])
  /\ UNCHANGED <<store, RATE_BUCKET>>

\* rate_limit_ok: now = time.time(), and the loop that pops stale entries
RateEnter(w) ==
  /\ work[w].pc = "rate_enter"
  /\ RATE_BUCKET' = [RATE_BUCKET EXCEPT ![BucketOf(work[w].req)] = Prune(@, now)]
  /\ Frame(w, [work[w] EXCEPT !.pc = "rate_check", !.t = now])
  /\ UNCHANGED store

\* rate_limit_ok: len(bucket) >= max_per_min
RateCheck(w) ==
  /\ work[w].pc = "rate_check"
  /\ Frame(w, IF Len(RATE_BUCKET[BucketOf(work[w].req)]) >= SAVE_PER_MIN
              THEN [work[w] EXCEPT !.pc = "idle", !.code = 429]
              ELSE [work[w] EXCEPT !.pc = "rate_append"])
  /\ UNCHANGED <<store, RATE_BUCKET>>

\* rate_limit_ok: bucket.append(now)
RateAppend(w) ==
  /\ work[w].pc = "rate_append"
  /\ RATE_BUCKET' = [RATE_BUCKET EXCEPT ![BucketOf(work[w].req)] = Append(@, work[w].t)]
  /\ Frame(w, [work[w] EXCEPT !.pc = "validate"])
  /\ UNCHANGED store

\* save_memory from the body to the sanitizers and the supplied slide_id
Validate(w) ==
  /\ work[w].pc = "validate"
  /\ LET r == work[w].req
         user_id == Field(r.data.user_id)
         thread_id == FieldOr(r.data.thread_id, S_general, THREAD_MAX)
         content == Field(r.data.content)
         role == FieldOr(r.data.role, S_assistant, ROLE_MAX)
         slide_in == Field(r.data.slide_id)
         done(code) == [work[w] EXCEPT !.pc = "idle", !.code = code]
     IN Frame(w, IF user_id = <<>> \/ content = <<>> THEN done(400)
                 ELSE IF Oversize(content) THEN done(413)
                 ELSE IF ~sanitize_glyph(GetOr(r.data.glyph_echo, JStr(GLYPH_DEFAULT))).ok
                         \/ ~sanitize_seal(GetOr(r.data.seal, JStr(S_lawful))).ok
                 THEN done(500)
                 ELSE [work[w] EXCEPT
                         !.user_id = user_id, !.thread_id = thread_id,
                         !.content = content, !.role = role, !.slide_id = slide_in,
                         !.pc = IF slide_in = <<>> \/ ~SlideMatch(slide_in)
                                THEN "resolve" ELSE "stamp"])
  /\ UNCHANGED <<store, RATE_BUCKET>>

\* next_slide_id_for: the SELECT of the latest row, and the id made from it
Resolve(w) ==
  /\ work[w].pc = "resolve"
  /\ \E last \in select_latest_in_thread(store, work[w].user_id, work[w].thread_id) :
       Frame(w, [work[w] EXCEPT !.pc = "stamp", !.last = last,
                                !.slide_id = next_slide_id_for(store, last)])
  /\ UNCHANGED <<store, RATE_BUCKET>>

\* rec["ts"] = int(time.time())
Stamp(w) ==
  /\ work[w].pc = "stamp"
  /\ Frame(w, [work[w] EXCEPT !.pc = "insert", !.ts = now])
  /\ UNCHANGED <<store, RATE_BUCKET>>

\* DB.insert_memory(rec), and the 201 answer
Insert(w) ==
  /\ work[w].pc = "insert"
  /\ store' = insert_memory(store, Record(work[w].req, work[w].user_id, work[w].thread_id,
                                          work[w].content, work[w].role,
                                          work[w].slide_id, work[w].ts))
  /\ Frame(w, [work[w] EXCEPT !.pc = "idle", !.code = 201])
  /\ UNCHANGED RATE_BUCKET

\* one step of one worker past the rate limiter's door
Limiter == \E w \in Workers : RateEnter(w) \/ RateCheck(w) \/ RateAppend(w) \/ Validate(w)

\* one step of one worker on the way to the table
Saver == \E w \in Workers : Resolve(w) \/ Stamp(w) \/ Insert(w)

(***************************************************************************)
(* Two workers saving into one group, no slide_id supplied.                *)
(***************************************************************************)
\* a save is taken on while the rows and the saves in progress leave room
NextRace ==
  \/ \E w \in Workers :
       /\ Len(store) + Cardinality({v \in Workers : work[v].pc # "idle"}) < RaceRows
       /\ Accept(w, Post(BaseData))
  \/ Limiter
  \/ Saver
  \/ Tick(RaceTime)

SpecRace == InitKeyed /\ [][NextRace]_vars

\* C12: rows inserted earlier carry a ts no greater than rows inserted
\* later, for every interleaving of concurrent saves.
C12_TsMonotone ==
  \A i \in DOMAIN store : \A j \in DOMAIN store : i < j => store[i].ts <= store[j].ts

\* the worker answered 201 to a save that named no slide_id
Allotted(w) ==
  /\ work[w].pc = "idle"
  /\ work[w].code = 201
  /\ work[w].req.data.slide_id = JAbsent

\* the rows of the worker's group that carry the slide_id it answered with
Twins(w) ==
  {i \in DOMAIN store : /\ store[i].user_id = work[w].user_id
                        /\ store[i].thread_id = work[w].thread_id
                        /\ store[i].slide_id = work[w].slide_id}

\* C18: two concurrent saves into one group that name no slide_id and read
\* the same latest row compute the same slide_id; both are answered 201 and
\* the table then holds two rows of the group with that slide_id.
C18_Race ==
  \A w1 \in Workers : \A w2 \in Workers :
    (/\ w1 # w2
     /\ Allotted(w1)
     /\ Allotted(w2)
     /\ work[w1].user_id = work[w2].user_id
     /\ work[w1].thread_id = work[w2].thread_id
     /\ work[w1].last = work[w2].last)
      => /\ work[w1].slide_id = work[w2].slide_id
         /\ Cardinality(Twins(w1)) >= 2

\* both workers read an empty group, both answered 201 with t-001, and the
\* table holds exactly those two rows
C18_Witness ==
  /\ \A w \in Workers : Allotted(w) /\ work[w].last = 0 /\ work[w].slide_id = SLIDE_FIRST
  /\ Len(store) = 2
  /\ \A i \in DOMAIN store : store[i].slide_id = SLIDE_FIRST /\ store[i].user_id = <<"u">>

(***************************************************************************)
(* Saves that all leave slide_id to the allocator, one after another.      *)
(***************************************************************************)
SaveAuto ==
  \E r \in {Post(BaseData), Post([BaseData EXCEPT !.thread_id = JStr(<<"a">>)])} :
    Room("save", r, AutoRows + 1) /\ SaveMemory(r) /\ Fits(AutoRows)

NextAuto == SaveAuto \/ Tick(AutoTime)

SpecAuto == InitKeyed /\ [][NextAuto]_vars

\* the number after the dash of a slide_id
Suffix(slide_id) == DigitsValue(Drop(slide_id, 2))

\* C13: with saves handled one after another, each auto-assigned slide_id of
\* a group has a numeric suffix strictly greater than that of every
\* slide_id auto-assigned earlier in the group.
C13_Increasing ==
  [][(/\ req'.path = "/save_memory"
      /\ resp'.code = 201
      /\ store' # store)
     => LET row == store'[Len(store')]
        IN \A i \in Group(store, row.user_id, row.thread_id) :
             Suffix(store[i].slide_id) < Suffix(row.slide_id)]_vars

\* a prefix t or r, a dash, then three to six digits
OfFormat(slide_id) ==
  /\ Len(slide_id) \in 5..8
  /\ slide_id[1] \in {"t", "r"}
  /\ slide_id[2] = "-"
  /\ AllDigits(Drop(slide_id, 2))

\* C14: every slide_id the allocator produces is a prefix t or r, a dash and
\* three to six digits, also when the latest slide_id of the group is
\* t-999999.
C14_Format ==
  [][(/\ req'.path = "/save_memory"
      /\ resp'.code = 201
      /\ store' # store
      /\ Allocated(req'))
     => /\ OfFormat(resp'.slide_id)
        /\ OfFormat(store'[Len(store')].slide_id)]_vars

(***************************************************************************)
(* Saves with and without a slide_id of either prefix.                     *)
(***************************************************************************)
T007 == <<"t", "-", "0", "0", "7">>
R001 == <<"r", "-", "0", "0", "1">>

SlideSaves ==
  {Post([BaseData EXCEPT !.slide_id = x]) :
     x \in {JAbsent, JStr(T007), JStr(R001), JStr(<<" ">> \o T007 \o <<" ">>),
            JStr(<<"x">>), JStr(<<>>)}}

SaveSlide ==
  \E r \in SlideSaves : Room("save", r, SlideRows + 1) /\ SaveMemory(r) /\ Fits(SlideRows)

NextSlide == SaveSlide \/ Tick(SlideTime)

SpecSlide == InitKeyed /\ [][NextSlide]_vars

\* the save stored a row
Stored == req'.path = "/save_memory" /\ resp'.code = 201 /\ store' # store

\* what the allocator can answer for a group of the table
AllocatorValues(st, user_id, thread_id) ==
  {next_slide_id_for(st, last) : last \in select_latest_in_thread(st, user_id, thread_id)}

\* C15 as claimed: a supplied slide_id of a prefix t or r, a dash and three
\* to six digits is stored exactly and the allocator is not consulted; the
\* allocator's value is used only when slide_id is absent or not of that
\* form; the 201 answer carries the slide_id of the stored row.
C15_AsClaimed ==
  [][Stored
     => LET row == store'[Len(store')]
            given == Raw(req'.data.slide_id)
        IN /\ resp'.slide_id = row.slide_id
           /\ OfFormat(given) => row.slide_id = given
           /\ ~OfFormat(given)
                => row.slide_id \in AllocatorValues(store, row.user_id, row.thread_id)]_vars

\* t, a dash, then three to six digits
TForm(slide_id) ==
  /\ Len(slide_id) \in 5..8
  /\ slide_id[1] = "t"
  /\ slide_id[2] = "-"
  /\ \A i \in 3..Len(slide_id) : slide_id[i] \in Digits

\* C15 amended: a supplied slide_id that, with surrounding whitespace
\* trimmed, is t, a dash and three to six digits is stored as that trimmed
\* value whatever the group holds; in every other case, the prefix r
\* included, the allocator's value is stored; the 201 answer carries the
\* slide_id of the stored row.
C15_Resolution ==
  [][Stored
     => LET row == store'[Len(store')]
            given == Strip(Raw(req'.data.slide_id))
        IN /\ resp'.slide_id = row.slide_id
           /\ TForm(given) => row.slide_id = given
           /\ ~TForm(given)
                => row.slide_id \in AllocatorValues(store, row.user_id, row.thread_id)]_vars

\* a save that supplied r-001 after a row t-007 was stored as t-008
C15_Witness ==
  /\ Len(store) = 2
  /\ store[1].slide_id = T007
  /\ store[1].ts < store[2].ts
  /\ req.data.slide_id = JStr(R001)
  /\ resp.code = 201
  /\ resp.slide_id = <<"t", "-", "0", "0", "8">>
  /\ store[2].slide_id = <<"t", "-", "0", "0", "8">>

\* the integer a before_ts query value denotes
CursorAsked(b) ==
  CASE b = Some(<<"2">>) -> 2
    [] b = Some(<<"0">>) -> 0

\* C19: whenever an integer before_ts is supplied to get_memory, 0
\* included, every returned row has ts < before_ts.
C19_Cursor ==
  (/\ req.path = "/get_memory"
   /\ resp.code = 200
   /\ req.args.before_ts \in {Some(<<"2">>), Some(<<"0">>)})
    => \A i \in DOMAIN resp.items : resp.items[i].ts < CursorAsked(req.args.before_ts)

(***************************************************************************)
(* Saves with a glyph_echo of every shape.                                 *)
(***************************************************************************)
\* n characters x
Xs(n) == [i \in 1..n |-> "x"]

GlyphSaves ==
  {Post([BaseData EXCEPT !.glyph_echo = g]) :
     g \in {JAbsent, JStr(<<>>), JStr(<<" ">>), JStr(<<" ", "x", " ">>), JStr(Xs(GLYPH_MAX)),
            JStr(Xs(GLYPH_MAX + 1)), JStr(<<" ">> \o Xs(GLYPH_MAX) \o <<" ">>)}}

SaveGlyph ==
  \E r \in GlyphSaves : Room("save", r, GlyphRows + 1) /\ SaveMemory(r) /\ Fits(GlyphRows)

NextGlyph == SaveGlyph \/ Tick(GlyphTime)

SpecGlyph == InitKeyed /\ [][NextGlyph]_vars

\* C20: for every glyph_echo string the stored glyph is the input with
\* surrounding whitespace trimmed, replaced by the placeholder if the
\* trimmed value is empty, then cut to 16 characters; hence every stored
\* glyph_echo is non-empty and at most 16 characters long.
C20_Glyph ==
  [][(Stored /\ req'.data.glyph_echo.t = "str")
     => LET row == store'[Len(store')]
            trimmed == Strip(req'.data.glyph_echo.s)
        IN /\ row.glyph_echo
                = Take(IF trimmed = <<>> THEN GLYPH_DEFAULT ELSE trimmed, 16)
           /\ row.glyph_echo # <<>>
           /\ Len(row.glyph_echo) <= 16]_vars

(***************************************************************************)
(* Two workers taking saves of one client at one instant; the saves lack   *)
(* content, so each ends at the rate limiter or at the 400 answer.         *)
(***************************************************************************)
NextRate ==
  \/ \E w \in Workers : Accept(w, Post([BaseData EXCEPT !.content = JAbsent]))
  \/ Limiter

SpecRate == InitKeyed /\ [][NextRate]_vars

\* C17: for each client key and under every interleaving of the workers,
\* the requests admitted within 60 seconds never exceed the ceiling, 120
\* for save and 240 for get.
C17_Ceiling ==
  \A k \in BucketKeys :
    Len(Recent(RATE_BUCKET[k], now)) <= (IF k[1] = "save" THEN 120 ELSE 240)

(***************************************************************************)
(* Iterations over a table that no save touches while they run.            *)
(***************************************************************************)
\* a save is handled only between iterations
NextWalk ==
  \/ ~PagingOn /\ SavePage
  \/ FirstPage
  \/ PageNext
  \/ TickPage

SpecWalk == InitKeyed /\ [][NextWalk]_vars

\* C21: with no save in between, following next_before_ts from the first
\* page until the empty page returns every stored row that matches the
\* filters, each exactly once, also when several rows share a ts and for
\* every limit; no matching row is skipped.
C21_Complete ==
  (pager.done /\ req.path = "/get_memory")
    => /\ ~pager.overlap
       /\ pager.seen = {i \in DOMAIN store : Satisfies(store[i], pager.req.args)}

====
